---- MODULE Spec2Model ----
(***************************************************************************)
(* Model of pyshacl/cli.py: main() as a single-threaded state machine      *)
(* (environment toggle, argument dispatch, data-source resolution, the     *)
(* validate() call with its except/finally chain, report rendering) and    *)
(* the helpers str_is_true and col_widther.                                *)
(* Python strings are sequences of one-character strings.                  *)
(***************************************************************************)
EXTENDS Integers, Sequences, FiniteSets, TLC

VARIABLES pc, env_http, env_server, argv, do_server, args, data_file, data_graph,
          validator_kwargs, outcome, exit_code, events, status,
          cw_in, cw_s, cw_out

vars == <<pc, env_http, env_server, argv, do_server, args, data_file, data_graph,
          validator_kwargs, outcome, exit_code, events, status,
          cw_in, cw_s, cw_out>>

-----------------------------------------------------------------------------
(* Bounds *)

MaxResults == 2

MaxBody == 52

-----------------------------------------------------------------------------
(* Python string primitives *)

UpperChars == <<"A","B","C","D","E","F","G","H","I","J","K","L","M",
                "N","O","P","Q","R","S","T","U","V","W","X","Y","Z">>

LowerChars == <<"a","b","c","d","e","f","g","h","i","j","k","l","m",
                "n","o","p","q","r","s","t","u","v","w","x","y","z">>

LowerChar(c) ==
    IF \E k \in 1..26 : UpperChars[k] = c
    THEN LowerChars[CHOOSE k \in 1..26 : UpperChars[k] = c]
    ELSE c

lower_CaseSensitive(s) == s

lower(s) == [k \in 1..Len(s) |-> LowerChar(s[k])]

Whitespace == {" ", "\t", "\n"}

RECURSIVE lstrip(_)
lstrip(s) == IF s # <<>> /\ Head(s) \in Whitespace THEN lstrip(Tail(s)) ELSE s

RECURSIVE rstrip(_)
rstrip(s) ==
    IF s # <<>> /\ s[Len(s)] \in Whitespace
    THEN rstrip(SubSeq(s, 1, Len(s) - 1))
    ELSE s

strip(s) == rstrip(lstrip(s))

startswith(s, p) == Len(s) >= Len(p) /\ SubSeq(s, 1, Len(p)) = p

RECURSIVE replace(_, _)
replace(s, old) ==
    IF s = <<>> THEN <<>>
    ELSE IF startswith(s, old)
         THEN replace(SubSeq(s, Len(old) + 1, Len(s)), old)
         ELSE <<Head(s)>> \o replace(Tail(s), old)

RECURSIVE join(_, _)
join(sep, parts) ==
    IF parts = <<>> THEN <<>>
    ELSE IF Len(parts) = 1 THEN parts[1]
    ELSE parts[1] \o sep \o join(sep, Tail(parts))

DigitChars == <<"0","1","2","3","4","5","6","7","8","9">>

RECURSIVE str_int(_)
str_int(n) ==
    IF n < 10 THEN <<DigitChars[n + 1]>>
    ELSE str_int(n \div 10) \o <<DigitChars[(n % 10) + 1]>>

-----------------------------------------------------------------------------
(* Optional values: None / unset environment variable *)

None == [set |-> FALSE, val |-> <<>>]

Some(s) == [set |-> TRUE, val |-> s]

getenv(var, default) == IF var.set THEN var.val ELSE default

-----------------------------------------------------------------------------
(* str_is_true *)

FalsyWords == { <<"0">>, <<"f">>, <<"n">>, <<"f","a","l","s","e">>, <<"n","o">> }

str_is_true(s_var) ==
    IF Len(s_var) > 0
    THEN (IF lower(s_var) \notin FalsyWords THEN TRUE ELSE FALSE)
    ELSE FALSE

-----------------------------------------------------------------------------
(* Concrete strings used as inputs *)

SH == <<"h","t","t","p",":","/","/","w","w","w",".","w","3",".","o","r","g","/","n","s","/","s","h","a","c","l","#">>

DataTtl == <<"d",".","t","t","l">>

MissingTtl == <<"m",".","t","t","l">>

SecretTtl == <<"s",".","t","t","l">>

HttpUrl == <<" ","H","T","T","P",":","/","/","e","x"," ">>

HttpsUrl == <<"h","t","t","p","s",":","/","/","e","x">>

FtpUrl == <<"f","t","p",":","/","/","e","x","a","m","p","l","e",".","o","r","g","/","x">>

Blank == <<" "," ">>

EnvVals == { None, Some(<<>>), Some(<<"0">>), Some(<<"F","a","l","s","e">>), Some(<<"N","O">>), Some(<<"1">>) }

DataVals == { None, Some(<<>>), Some(Blank), Some(DataTtl), Some(MissingTtl),
              Some(SecretTtl), Some(HttpUrl), Some(HttpsUrl), Some(FtpUrl) }

Formats == {"human", "table", "turtle", "xml", "json-ld", "nt", "n3"}

(* open(path, 'rb'): the file system decides *)
FileStatus(path) ==
    IF path = DataTtl THEN "ok"
    ELSE IF path = SecretTtl THEN "denied"
    ELSE "missing"

-----------------------------------------------------------------------------
(* Event log: every observable effect of main(), in program order *)

Text(s) == [text |-> s]

Ev(op) == [op |-> op, stream |-> "-", item |-> Text("")]

Write(stream, item) == [op |-> "write", stream |-> stream, item |-> item]

IsWrite(e, stream) == e.op = "write" /\ e.stream = stream

OutWrites == SelectSeq(events, LAMBDA e : IsWrite(e, "out"))

ErrWrites == SelectSeq(events, LAMBDA e : IsWrite(e, "err"))

Count(op) == Len(SelectSeq(events, LAMBDA e : e.op = op))

EmptyNamespace == <<>>

NoOutcome == [kind |-> "none"]

NoExit == -1

Running == -1

-----------------------------------------------------------------------------
(* The command line as parser.parse_args() reads it (lines 40-232): the
   options the modelled part of main() looks at. *)
CommandLines ==
    [server : BOOLEAN, do_rules : BOOLEAN, data : DataVals, sparql_mode : BOOLEAN,
     format : Formats, iterate_rules : BOOLEAN, advanced : BOOLEAN]

(* main(), lines 239-244: environment toggle and argument parsing *)

ParseArgs ==
    /\ pc = "start"
    /\ do_server' = getenv(env_server, getenv(env_http, <<>>))
    /\ IF do_server' # <<>>
       THEN args' = EmptyNamespace
       ELSE args' = argv
    /\ pc' = "dispatch"
    /\ UNCHANGED <<env_http, env_server, argv, data_file, data_graph,
                   validator_kwargs, outcome, exit_code, events, status,
                   cw_in, cw_s, cw_out>>

(* An exception nobody catches: the interpreter prints the traceback on the
   error stream and the process ends with status 1. *)
Uncaught(name) == <<Write("err", Text(name)), Ev("exit")>>

hasattr(ns, name) == name \in DOMAIN ns

(* main(), lines 245-259: server mode, rules mode, missing DataGraph *)
Dispatch ==
    /\ pc = "dispatch"
    /\ IF str_is_true(do_server)
       THEN /\ events' = events \o <<Ev("http_main"), Ev("exit")>>
            /\ status' = 0
            /\ pc' = "exited"
       ELSE IF ~hasattr(args, "server")
       THEN /\ events' = events \o Uncaught("AttributeError")
            /\ status' = 1
            /\ pc' = "exited"
       ELSE IF args.server
       THEN /\ events' = events \o <<Ev("http_main"), Ev("exit")>>
            /\ status' = 0
            /\ pc' = "exited"
       ELSE IF args.do_rules
       THEN /\ events' = events \o <<Ev("rules_main"), Ev("exit")>>
            /\ status' = 0
            /\ pc' = "exited"
       ELSE IF ~args.data.set \/ args.data.val = <<>>
       THEN /\ events' = events \o
                 <<Write("err", Text("Input Error. No DataGraph file or endpoint supplied.\n")),
                   Write("err", Text("usage")), Ev("exit")>>
            /\ status' = 1
            /\ pc' = "exited"
       ELSE /\ pc' = "resolve"
            /\ UNCHANGED <<events, status>>
    /\ UNCHANGED <<env_http, env_server, argv, do_server, args, data_file, data_graph,
                   validator_kwargs, outcome, exit_code, cw_in, cw_s, cw_out>>

(* main(), lines 260-281: SPARQL endpoint check or open(args.data, 'rb') *)
ResolveData ==
    /\ pc = "resolve"
    /\ IF args.sparql_mode
       THEN LET endpoint == strip(args.data.val) IN
            IF ~startswith(lower(endpoint), <<"h","t","t","p",":">>)
               /\ ~startswith(lower(endpoint), <<"h","t","t","p","s",":">>)
            THEN /\ events' = events \o
                      <<Write("err", Text("Input Error. SPARQL Endpoint must start with http:// or https://.\n")),
                        Ev("exit")>>
                 /\ status' = 1
                 /\ pc' = "exited"
                 /\ UNCHANGED <<data_file, data_graph, validator_kwargs>>
            ELSE /\ data_graph' = [kind |-> "str", val |-> endpoint]
                 /\ validator_kwargs' = [debug |-> "False", sparql_mode |-> "True"]
                 /\ pc' = "kwargs"
                 /\ UNCHANGED <<data_file, events, status>>
       ELSE LET st == FileStatus(args.data.val) IN
            IF st = "missing"
            THEN /\ events' = events \o
                      <<Write("err", Text("Input Error. DataGraph file not found.\n")), Ev("exit")>>
                 /\ status' = 1
                 /\ pc' = "exited"
                 /\ UNCHANGED <<data_file, data_graph, validator_kwargs>>
            ELSE IF st = "denied"
            THEN /\ events' = events \o
                      <<Write("err", Text("Input Error. DataGraph file not readable.\n")), Ev("exit")>>
                 /\ status' = 1
                 /\ pc' = "exited"
                 /\ UNCHANGED <<data_file, data_graph, validator_kwargs>>
            ELSE /\ data_file' = "open"
                 /\ data_graph' = [kind |-> "file", val |-> args.data.val]
                 /\ validator_kwargs' = [debug |-> "False"]
                 /\ events' = events \o <<Ev("open_data")>>
                 /\ pc' = "kwargs"
                 /\ UNCHANGED status
    /\ UNCHANGED <<env_http, env_server, argv, do_server, args, outcome, exit_code,
                   cw_in, cw_s, cw_out>>

(* main(), lines 282-324: the options the modelled claims depend on *)
BuildKwargs ==
    /\ pc = "kwargs"
    /\ validator_kwargs' =
          (IF args.format \notin {"human", "table"}
           THEN ("serialize_report_graph" :> args.format) ELSE <<>>)
          @@ (IF args.advanced THEN ("advanced" :> "True") ELSE <<>>)
          @@ (IF args.iterate_rules /\ args.advanced
              THEN ("iterate_rules" :> "True") ELSE <<>>)
          @@ validator_kwargs
    /\ events' = IF args.iterate_rules /\ ~args.advanced
                 THEN events \o <<Write("err",
                        Text("Iterate-Rules option only works when you enable Advanced Mode.\n"))>>
                 ELSE events
    /\ pc' = "validate"
    /\ UNCHANGED <<env_http, env_server, argv, do_server, args, data_file, data_graph,
                   outcome, exit_code, status, cw_in, cw_s, cw_out>>

-----------------------------------------------------------------------------
(* The report graph returned by validate(): the sh:result triples in the
   graph's traversal order, and for every result node the predicates it
   carries.  A graph is a set of triples, so no link occurs twice. *)

ReportNodes == {"rep1", "rep2"}

ResultNodes == {"r1", "r2"}

Mandatory == {"resultSeverity", "focusNode", "sourceConstraintComponent", "sourceShape"}

Optional == {"resultPath", "resultMessage", "value"}

NodeDoms == { Mandatory \cup O : O \in SUBSET Optional }
            \cup { Mandatory \ {"sourceShape"} }

LinkPairs == ReportNodes \X ResultNodes

RECURSIVE LinkSeqs(_)
LinkSeqs(n) ==
    IF n = 0 THEN { <<>> }
    ELSE LET prev == LinkSeqs(n - 1) IN
         prev \cup { Append(l, x) : l \in { m \in prev : Len(m) = n - 1 },
                                    x \in LinkPairs }

NoDup(l) == \A a, b \in 1..Len(l) : a # b => l[a] # l[b]

Linked(l) == { l[k][2] : k \in 1..Len(l) }

Graphs ==
    { [type |-> "Graph", links |-> l, preds |-> d] :
        l \in { m \in LinkSeqs(MaxResults) : NoDup(m) },
        d \in [ResultNodes -> NodeDoms \cup {{}}] } 

WellFormed(g) == \A n \in ResultNodes : (g.preds[n] = {}) <=> (n \notin Linked(g.links))

ReportGraphs == { g \in Graphs : WellFormed(g) }

EmptyGraph == [type |-> "Graph", links |-> <<>>, preds |-> [n \in ResultNodes |-> {}]]

(* str() of the object of the triple (node, predicate, object) *)
FacetValue(n, p) ==
    CASE p = "resultSeverity" -> SH \o <<"V","i","o","l","a","t","i","o","n">>
      [] p = "focusNode" -> IF n = "r1" THEN <<"e","x",":","a">> ELSE <<"e","x",":","b">>
      [] p = "resultPath" -> <<"e","x",":","p">>
      [] p = "resultMessage" -> IF n = "r1" THEN <<"L","e","s","s"," ","t","h","a","n"," ","1"," ","v","a","l","u","e","s"," ","o","n"," ","e","x",":","a","-",">","e","x",":","p">>
                                ELSE <<"n","o","t"," ","a"," ">> \o SH \o <<"S","h","a","p","e">>
      [] p = "sourceConstraintComponent" -> SH \o <<"M","i","n","C","o","u","n","t","C","o","n","s","t","r","a","i","n","t","C","o","m","p","o","n","e","n","t">>
      [] p = "sourceShape" -> <<"e","x",":","S">>
      [] p = "value" -> IF n = "r1" THEN <<"v","1">> ELSE <<"v","2">>

-----------------------------------------------------------------------------
(* col_widther, lines 387-394 *)

ColWidth == 25

RECURSIVE Chunks(_, _, _)
Chunks(s, i, w) ==
    IF i < Len(s)
    THEN <<SubSeq(s, i + 1, IF i + w < Len(s) THEN i + w ELSE Len(s))>>
         \o Chunks(s, i + w, w)
    ELSE <<>>

col_widther(s, w) == join(<<"\n">>, Chunks(s, 0, w))

(* line 408: str(o2[1]).replace(f'{SH}', '') *)
StripNamespace(v) == replace(v, SH)

(* lines 406-408: the dict r of one result node *)
ResultRecord(g, n) ==
    [p \in g.preds[n] |-> col_widther(StripNamespace(FacetValue(n, p)), ColWidth)]

(* r[SH.x] if r.get(SH.x) is not None else '-' *)
OrDash(r, p) == IF p \in DOMAIN r THEN r[p] ELSE <<"-">>

BlankRow == << <<>>, <<>>, <<>>, <<>>, <<>>, <<>>, <<>>, <<>> >>

DataRow(i, r) ==
    << str_int(i + 1), r["resultSeverity"], r["focusNode"],
       OrDash(r, "resultPath"), OrDash(r, "resultMessage"),
       r["sourceConstraintComponent"], r["sourceShape"], OrDash(r, "value") >>

(* line 405: v_graph.objects(None, SH.result), one object per matching triple *)
ResultObjects(g) == [k \in 1..Len(g.links) |-> g.links[k][2]]

(* lines 405-421: the rows added to t2; the loop stops at the first KeyError *)
RECURSIVE TableRows(_, _, _)
TableRows(g, objs, i) ==
    IF i >= Len(objs) THEN <<>>
    ELSE <<DataRow(i, ResultRecord(g, objs[i + 1])), BlankRow>>
         \o TableRows(g, objs, i + 1)

RaisesKeyError(g) ==
    \E k \in 1..Len(g.links) : ~(Mandatory \subseteq g.preds[g.links[k][2]])

T2Fields == <<"No.", "Severity", "Focus Node", "Result Path", "Message",
              "Component", "Shape", "Value">>

Table(fields, rows) == [table |-> fields, rows |-> rows]

str_bool(b) == IF b THEN <<"T","r","u","e">> ELSE <<"F","a","l","s","e">>

-----------------------------------------------------------------------------
(* validate() and the try/except/finally statement, lines 325-376 *)

FailureKinds == {"ValidationFailure", "ShapeLoadError", "ConstraintLoadError",
                 "RuleLoadError", "ReportableRuntimeError", "NotImplementedError",
                 "RuntimeError"}

(* an exception of a class none of the except clauses names *)
OtherKinds == {"ValueError"}

(* the classes an exception of class k is an instance of.  NotImplementedError
   is a RuntimeError in Python; the classes of pyshacl.errors are taken to be
   RuntimeErrors too, the case in which the order of the except clauses
   decides which clause handles them. *)
Bases(k) ==
    IF k \in FailureKinds THEN {k, "RuntimeError"} ELSE {k}

ExceptClauses_RuntimeErrorFirst ==
    <<"RuntimeError", "ValidationFailure", "ShapeLoadError", "ConstraintLoadError",
      "RuleLoadError", "ReportableRuntimeError", "NotImplementedError">>

(* the except clauses in source order *)
ExceptClauses == <<"ValidationFailure", "ShapeLoadError", "ConstraintLoadError",
                   "RuleLoadError", "ReportableRuntimeError", "NotImplementedError",
                   "RuntimeError">>

Matching(k) == { j \in 1..Len(ExceptClauses) : ExceptClauses[j] \in Bases(k) }

(* the clause that handles k: the first one that matches, "" if none does *)
Handler(k) ==
    IF Matching(k) = {} THEN ""
    ELSE ExceptClauses[CHOOSE j \in Matching(k) : \A j2 \in Matching(k) : j <= j2]

HandlerStream_AlwaysStderr(clause) == "err"

(* the stream each except clause writes to: args.output or sys.stderr *)
HandlerStream(clause) ==
    IF clause = "ValidationFailure" THEN "out" ELSE "err"

HandlerTexts(clause, o) ==
    CASE clause = "ValidationFailure" ->
           <<"Validator generated a Validation Failure result:\n",
             "str(vf.message)", "\n">>
      [] clause = "ShapeLoadError" ->
           <<"Validator encountered a Shape Load Error:\n", "str(sle)">>
      [] clause = "ConstraintLoadError" ->
           <<"Validator encountered a Constraint Load Error:\n", "str(cle)">>
      [] clause = "RuleLoadError" ->
           <<"Validator encountered a Rule Load Error:\n", "str(rle)">>
      [] clause = "ReportableRuntimeError" ->
           <<"Validator encountered a Runtime Error:\n", "str(rre.message)",
             "\nIf you believe this is a bug in pyshacl, open an Issue on the pyshacl github page.\n">>
      [] clause = "NotImplementedError" ->
           <<"Validator feature is not implemented:\n",
             IF o.has_msg THEN "str(nie.args[0])" ELSE "No message provided.",
             "\nIf your use-case requires this feature, open an Issue on the pyshacl github page.\n">>
      [] clause = "RuntimeError" ->
           <<"traceback.print_tb",
             "\n\nValidator encountered a Runtime Error. Please report this to the PySHACL issue tracker.\n">>
      [] OTHER -> <<>>

HandlerWrites(clause, o) ==
    [k \in 1..Len(HandlerTexts(clause, o)) |->
        Write(HandlerStream(clause), Text(HandlerTexts(clause, o)[k]))]

HandlerExitCode(clause) ==
    CASE clause = "ValidationFailure" -> 1
      [] clause \in {"ShapeLoadError", "ConstraintLoadError", "RuleLoadError",
                     "ReportableRuntimeError", "RuntimeError"} -> 2
      [] clause = "NotImplementedError" -> 3
      [] OTHER -> NoExit

(* what validate() can hand back for the requested format *)
ReturnedGraphs(format) ==
    IF format = "table" THEN ReportGraphs
    ELSE IF format = "human" THEN {EmptyGraph}
    ELSE { [type |-> "bytes"], [type |-> "str"] }

Outcomes(format) ==
    { [kind |-> "Success", delivered |-> "returned", is_conform |-> c,
       v_graph |-> g, has_msg |-> FALSE] :
         c \in BOOLEAN, g \in ReturnedGraphs(format) }
    \cup
    { [kind |-> k, delivered |-> d, is_conform |-> FALSE,
       v_graph |-> [type |-> "exception"], has_msg |-> TRUE] :
         k \in FailureKinds \cup OtherKinds, d \in {"raised", "returned"} }
    \cup
    { [kind |-> "NotImplementedError", delivered |-> d, is_conform |-> FALSE,
       v_graph |-> [type |-> "exception"], has_msg |-> FALSE] :
         d \in {"raised", "returned"} }

FinallyEvents_NoClose(close_fails) == <<>>

(* lines 368-374: the finally clause closes the data file *)
FinallyEvents(close_fails) ==
    IF data_file = "open"
    THEN <<Ev("close_data")>> \o
         (IF close_fails
          THEN <<Ev("close_data_raises"),
                 Write("err", Text("Error closing data file:\n")),
                 Write("err", Text("str(e)"))>>
          ELSE <<>>)
    ELSE <<>>

TryValidate ==
    /\ pc = "validate"
    /\ \E o \in Outcomes(args.format),
          close_fails \in IF data_file = "open" THEN BOOLEAN ELSE {FALSE} :
        LET clause == IF o.kind = "Success" THEN "" ELSE Handler(o.kind)
            code   == HandlerExitCode(clause)
            uncaught == o.kind # "Success" /\ clause = ""
        IN
        /\ outcome' = o
        /\ exit_code' = code
        /\ data_file' = IF data_file = "open" /\ ~close_fails THEN "closed" ELSE data_file
        /\ events' = events \o <<Ev("validate")>> \o HandlerWrites(clause, o)
                       \o FinallyEvents(close_fails)
                       \o (IF code # NoExit THEN <<Ev("exit")>>
                           ELSE IF uncaught THEN Uncaught(o.kind)
                           ELSE <<>>)
        /\ status' = IF code # NoExit THEN code ELSE IF uncaught THEN 1 ELSE status
        /\ pc' = IF code # NoExit \/ uncaught THEN "exited" ELSE "render"
    /\ UNCHANGED <<env_http, env_server, argv, do_server, args, data_graph,
                   validator_kwargs, cw_in, cw_s, cw_out>>

-----------------------------------------------------------------------------
(* Report rendering, lines 377-428 *)

ExitFor(is_conform) == IF is_conform THEN 0 ELSE 1

Finish_NoClose == <<Ev("exit")>>

(* lines 427-428: args.output.close(); sys.exit(...) *)
Finish == <<Ev("close_out"), Ev("exit")>>

RenderHuman ==
    /\ pc = "render"
    /\ args.format = "human"
    /\ events' = events \o <<Write("out", Text("v_text"))>> \o Finish
    /\ status' = ExitFor(outcome.is_conform)
    /\ pc' = "exited"
    /\ UNCHANGED <<env_http, env_server, argv, do_server, args, data_file, data_graph,
                   validator_kwargs, outcome, exit_code, cw_in, cw_s, cw_out>>

SummaryWrites(is_conform) ==
    <<Write("out", Table(<<"Conforms">>, << <<str_bool(is_conform)>> >>)),
      Write("out", Text("\n\n"))>>

ShowDetail_Always(is_conform) == TRUE

(* line 396: if not is_conform *)
ShowDetail(is_conform) == ~is_conform

RenderTable ==
    /\ pc = "render"
    /\ args.format = "table"
    /\ LET g == outcome.v_graph IN
       IF ShowDetail(outcome.is_conform)
       THEN IF RaisesKeyError(g)
            THEN /\ events' = events \o SummaryWrites(outcome.is_conform)
                                \o <<Ev("query_results")>> \o Uncaught("KeyError")
                 /\ status' = 1
            ELSE /\ events' = events \o SummaryWrites(outcome.is_conform)
                                \o <<Ev("query_results"),
                                     Write("out", Table(T2Fields, TableRows(g, ResultObjects(g), 0)))>>
                                \o Finish
                 /\ status' = ExitFor(outcome.is_conform)
       ELSE /\ events' = events \o SummaryWrites(outcome.is_conform) \o Finish
            /\ status' = ExitFor(outcome.is_conform)
    /\ pc' = "exited"
    /\ UNCHANGED <<env_http, env_server, argv, do_server, args, data_file, data_graph,
                   validator_kwargs, outcome, exit_code, cw_in, cw_s, cw_out>>

RenderSerialized ==
    /\ pc = "render"
    /\ args.format \notin {"human", "table"}
    /\ events' = events
                 \o (IF outcome.v_graph.type = "bytes" THEN <<Ev("decode_utf8")>> ELSE <<>>)
                 \o <<Write("out", Text("v_graph"))>> \o Finish
    /\ status' = ExitFor(outcome.is_conform)
    /\ pc' = "exited"
    /\ UNCHANGED <<env_http, env_server, argv, do_server, args, data_file, data_graph,
                   validator_kwargs, outcome, exit_code, cw_in, cw_s, cw_out>>

-----------------------------------------------------------------------------
(* main() from process start *)

Init ==
    /\ pc = "start"
    /\ env_http \in EnvVals
    /\ env_server \in EnvVals
    /\ argv \in CommandLines
    /\ do_server = <<>>
    /\ args = EmptyNamespace
    /\ data_file = "none"
    /\ data_graph = [kind |-> "none", val |-> <<>>]
    /\ validator_kwargs = <<>>
    /\ outcome = NoOutcome
    /\ exit_code = NoExit
    /\ events = <<>>
    /\ status = Running
    /\ cw_in = <<>>
    /\ cw_s = <<>>
    /\ cw_out = <<>>

Next ==
    \/ ParseArgs
    \/ Dispatch
    \/ ResolveData
    \/ BuildKwargs
    \/ TryValidate
    \/ RenderHuman
    \/ RenderTable
    \/ RenderSerialized

Spec == Init /\ [][Next]_vars

-----------------------------------------------------------------------------
(* Line 408 on its own: one field value is stripped of the namespace and
   wrapped.  The inputs are strings of every length up to MaxBody, with and
   without the namespace in front and further inside, and with newlines of
   their own. *)

Letters == <<"a", "b", "c", "\n", "d", "e", "f">>

Body(n) == [k \in 1..n |-> Letters[((k - 1) % Len(Letters)) + 1]]

WrapInputs ==
    { pre \o Body(n) \o mid \o tail :
        pre \in {<<>>, SH}, n \in 0..MaxBody, mid \in {<<>>, SH},
        tail \in {<<>>, <<"z">>} }

InitWrap ==
    /\ pc = "cw_start"
    /\ cw_in \in WrapInputs
    /\ cw_s = <<>>
    /\ cw_out = <<>>
    /\ env_http = None
    /\ env_server = None
    /\ argv = [server |-> FALSE, do_rules |-> FALSE, data |-> None,
               sparql_mode |-> FALSE, format |-> "table",
               iterate_rules |-> FALSE, advanced |-> FALSE]
    /\ do_server = <<>>
    /\ args = EmptyNamespace
    /\ data_file = "none"
    /\ data_graph = [kind |-> "none", val |-> <<>>]
    /\ validator_kwargs = <<>>
    /\ outcome = NoOutcome
    /\ exit_code = NoExit
    /\ events = <<>>
    /\ status = Running

CwStrip ==
    /\ pc = "cw_start"
    /\ cw_s' = StripNamespace(cw_in)
    /\ pc' = "cw_stripped"
    /\ UNCHANGED <<env_http, env_server, argv, do_server, args, data_file,
                   data_graph, validator_kwargs, outcome, exit_code, events,
                   status, cw_in, cw_out>>

CwWrap ==
    /\ pc = "cw_stripped"
    /\ cw_out' = col_widther(cw_s, ColWidth)
    /\ pc' = "cw_done"
    /\ UNCHANGED <<env_http, env_server, argv, do_server, args, data_file,
                   data_graph, validator_kwargs, outcome, exit_code, events,
                   status, cw_in, cw_s>>

NextWrap ==
    \/ CwStrip
    \/ CwWrap

SpecWrap == InitWrap /\ [][NextWrap]_vars

-----------------------------------------------------------------------------
(* Properties *)

Exited == pc = "exited"

Pos(op) == CHOOSE k \in 1..Len(events) : events[k].op = op

Texts(writes) == { writes[k].item : k \in 1..Len(writes) }

IsTable(item) == "table" \in DOMAIN item

DetailTables == SelectSeq(OutWrites, LAMBDA e : IsTable(e.item) /\ e.item.table = T2Fields)

Crashed(name) == \E k \in 1..Len(events) : events[k] = Write("err", Text(name))

Validated == Count("validate") = 1

ExpectedExit(o) ==
    CASE o.kind = "Success" -> (IF o.is_conform THEN 0 ELSE 1)
      [] o.kind = "ValidationFailure" -> 1
      [] o.kind \in {"ShapeLoadError", "ConstraintLoadError", "RuleLoadError",
                     "ReportableRuntimeError", "RuntimeError"} -> 2
      [] o.kind = "NotImplementedError" -> 3

FailureHeader(k) ==
    CASE k = "ValidationFailure" -> "Validator generated a Validation Failure result:\n"
      [] k = "ShapeLoadError" -> "Validator encountered a Shape Load Error:\n"
      [] k = "ConstraintLoadError" -> "Validator encountered a Constraint Load Error:\n"
      [] k = "RuleLoadError" -> "Validator encountered a Rule Load Error:\n"
      [] k = "ReportableRuntimeError" -> "Validator encountered a Runtime Error:\n"
      [] k = "NotImplementedError" -> "Validator feature is not implemented:\n"
      [] k = "RuntimeError" -> "\n\nValidator encountered a Runtime Error. Please report this to the PySHACL issue tracker.\n"

(* C1: once validate() has been called and the process has ended, the exit
   status is 0 for a conformant success and 1 for a non-conformant one in
   every output format, 1 for a validation failure, 2 for the shape, constraint
   and rule load errors, the reportable and the unclassified runtime error, 3
   for an unimplemented feature, whether the failure was raised or returned as
   the report graph; and only the failure's own header is written, so that no
   failure other than a plain RuntimeError gets the unclassified header. *)
C1_ExitCodeByOutcome ==
    (Exited /\ Validated /\ outcome.kind \in FailureKinds \cup {"Success"}) =>
        /\ status = ExpectedExit(outcome)
        /\ \A k \in FailureKinds :
              Text(FailureHeader(k)) \in Texts(OutWrites) \cup Texts(ErrWrites)
                 <=> k = outcome.kind

C1_Witness ==
    /\ Exited
    /\ Validated
    /\ outcome.kind = "NotImplementedError"
    /\ outcome.delivered = "returned"
    /\ status = 3

(* what the error stream may carry besides the failure's message: the
   Iterate-Rules warning written before validate() and the report of a failed
   close of the data file *)
Incidental ==
    { Text("Iterate-Rules option only works when you enable Advanced Mode.\n"),
      Text("Error closing data file:\n"), Text("str(e)") }

(* C2: when validate() fails with one of the seven kinds, the failure's
   message goes to one stream only.  A validation failure puts its header,
   its message and a newline on the output destination and nothing of it on
   the error stream; each of the six other kinds puts its header on the error
   stream and leaves the output destination empty.  No report rendering
   reaches the output destination. *)
C2_FailureStream ==
    (Exited /\ Validated /\ outcome.kind \in FailureKinds) =>
        IF outcome.kind = "ValidationFailure"
        THEN /\ OutWrites = <<Write("out", Text(FailureHeader("ValidationFailure"))),
                              Write("out", Text("str(vf.message)")),
                              Write("out", Text("\n"))>>
             /\ Texts(ErrWrites) \subseteq Incidental
        ELSE /\ OutWrites = <<>>
             /\ Text(FailureHeader(outcome.kind)) \in Texts(ErrWrites)

C2_Witness ==
    /\ Exited
    /\ outcome.kind = "ValidationFailure"
    /\ Len(OutWrites) = 3
    /\ args.iterate_rules
    /\ ~args.advanced

(* C3: a data file that main() opened is closed exactly once, before the
   process ends, on every way out (every format, every failure kind, an
   exception nobody catches, a failure while rendering); in SPARQL mode no
   file is opened and none is closed.  A close that fails is reported on the
   error stream and leaves the exit status the outcome decided. *)
C3_DataFileClosedOnce ==
    /\ Count("open_data") <= 1
    /\ Count("close_data") <= Count("open_data")
    /\ (Exited /\ Count("open_data") = 1) =>
          /\ Count("close_data") = 1
          /\ events[Len(events)].op = "exit"
          /\ Pos("close_data") < Len(events)
          /\ Pos("open_data") < Pos("close_data")
    /\ (hasattr(args, "sparql_mode") /\ args.sparql_mode) => Count("open_data") = 0
    /\ Count("close_data_raises") = 1 =>
          /\ events[Pos("close_data_raises") + 1] = Write("err", Text("Error closing data file:\n"))
          /\ (Exited /\ outcome.kind \in FailureKinds \cup {"Success"})
                => status = ExpectedExit(outcome)

C3_Witness ==
    /\ Exited
    /\ Count("open_data") = 1
    /\ Count("close_data_raises") = 1
    /\ outcome.kind = "RuntimeError"
    /\ outcome.delivered = "raised"
    /\ status = 2

(* the effective toggle: PYSHACL_SERVER when set, else PYSHACL_HTTP, else "" *)
Toggle ==
    IF env_server.set THEN env_server.val
    ELSE IF env_http.set THEN env_http.val
    ELSE <<>>

Truthy(t) == t # <<>> /\ lower(t) \notin FalsyWords

ServerEntered == Count("http_main") = 1

NoDataGraphError ==
    Write("err", Text("Input Error. No DataGraph file or endpoint supplied.\n"))

(* C4: server mode is entered exactly when --server is on the command line or
   the effective toggle is truthy; every other invocation, a non-empty falsy
   toggle included, goes on as a normal invocation, which without a data
   source ends with the 'no DataGraph' usage error and exit status 1. *)
C4_ServerModeIff ==
    Exited =>
        /\ ServerEntered <=> (argv.server \/ Truthy(Toggle))
        /\ ~ServerEntered => ~Crashed("AttributeError")
        /\ (~ServerEntered /\ ~argv.do_rules
               /\ (~argv.data.set \/ argv.data.val = <<>>))
              => (status = 1 /\ \E k \in 1..Len(events) : events[k] = NoDataGraphError)

CaseEq(a, b) == a = b \/ \E k \in 1..26 : {a, b} = {UpperChars[k], LowerChars[k]}

(* scheme stands in s at position a, whatever the case of the letters *)
SchemeAt(s, a, scheme) ==
    /\ a + Len(scheme) - 1 <= Len(s)
    /\ \A k \in 1..Len(scheme) : CaseEq(s[a + k - 1], scheme[k])

(* t is s without its leading and trailing whitespace *)
IsTrimOf(t, s) ==
    \E a \in 1..Len(s) + 1, b \in 0..Len(s) :
        /\ t = SubSeq(s, a, b)
        /\ \A k \in 1..Len(s) : (k < a \/ k > b) => s[k] \in Whitespace
        /\ t # <<>> => (t[1] \notin Whitespace /\ t[Len(t)] \notin Whitespace)

(* after the leading whitespace d goes on with http: or https: *)
GoodEndpoint(d) ==
    \E a \in 1..Len(d) :
        /\ \A k \in 1..(a - 1) : d[k] \in Whitespace
        /\ \/ SchemeAt(d, a, <<"h","t","t","p",":">>)
           \/ SchemeAt(d, a, <<"h","t","t","p","s",":">>)

SparqlRequested ==
    /\ pc \notin {"start", "dispatch", "resolve"}
    /\ hasattr(args, "sparql_mode")
    /\ ~args.server
    /\ ~args.do_rules
    /\ args.sparql_mode
    /\ args.data.set
    /\ args.data.val # <<>>

SparqlUsageError ==
    Write("err", Text("Input Error. SPARQL Endpoint must start with http:// or https://.\n"))

(* C5: in a validation invocation with SPARQL mode requested, a data source
   that after trimming starts, case-insensitively, with neither "http:" nor
   "https:" ends in the usage error on the error stream and exit status 1,
   with validate() never called and no file opened; one that does start with
   either reaches validate() with the trimmed endpoint and sparql_mode set,
   and no file is opened. *)
C5_SparqlEndpoint ==
    SparqlRequested =>
        /\ Count("open_data") = 0
        /\ IF GoodEndpoint(args.data.val)
           THEN /\ pc = "kwargs" \/ Validated \/ pc = "validate"
                /\ data_graph.kind = "str"
                /\ IsTrimOf(data_graph.val, args.data.val)
                /\ validator_kwargs["sparql_mode"] = "True"
                /\ Exited => Validated
           ELSE /\ Exited
                /\ Count("validate") = 0
                /\ status = 1
                /\ ErrWrites = <<SparqlUsageError>>

C5_Witness ==
    /\ Exited
    /\ SparqlRequested
    /\ args.data.val = FtpUrl
    /\ status = 1
    /\ Count("validate") = 0

SuccessPath == Validated /\ outcome.kind = "Success" /\ ~Crashed("KeyError")

(* C6: the output destination is closed exactly once, after the last write to
   it and right before the process ends, when rendering succeeded, in every
   format; on every other way out (usage errors, every failure kind, the
   validation failure included) it is never closed. *)
C6_OutputClosed ==
    /\ Count("close_out") <= 1
    /\ Exited =>
          IF SuccessPath
          THEN /\ Count("close_out") = 1
               /\ Len(OutWrites) >= 1
               /\ \A k \in 1..Len(events) :
                     IsWrite(events[k], "out") => k < Pos("close_out")
               /\ Pos("close_out") = Len(events) - 1
               /\ events[Len(events)].op = "exit"
          ELSE Count("close_out") = 0

C6_Witness ==
    /\ Exited
    /\ SuccessPath
    /\ args.format = "turtle"
    /\ outcome.v_graph.type = "bytes"
    /\ Count("close_out") = 1

TableCase == Exited /\ Validated /\ outcome.kind = "Success" /\ args.format = "table"

RECURSIVE FirstOccurrences(_, _)
FirstOccurrences(objs, seen) ==
    IF objs = <<>> THEN <<>>
    ELSE IF Head(objs) \in seen THEN FirstOccurrences(Tail(objs), seen)
    ELSE <<Head(objs)>> \o FirstOccurrences(Tail(objs), seen \cup {Head(objs)})

(* C7: a non-conformant outcome rendered as a table has one data row per
   distinct result node (a node that several sh:result triples point to
   counts once), in traversal order, numbered 1, 2, 3, ..., each followed by
   one row of eight empty strings. *)
C7_OneRowPerResultNode ==
    (TableCase /\ ~outcome.is_conform /\ Len(DetailTables) = 1) =>
        LET rows  == DetailTables[1].item.rows
            nodes == FirstOccurrences(ResultObjects(outcome.v_graph), {})
        IN /\ Len(rows) = 2 * Len(nodes)
           /\ \A k \in 1..Len(nodes) :
                 /\ 2 * k <= Len(rows)
                 /\ rows[2 * k - 1][1] = str_int(k)
                 /\ rows[2 * k - 1][3] = FacetValue(nodes[k], "focusNode")
                 /\ rows[2 * k] = BlankRow

(* C8: a conformant outcome rendered as a table writes only the summary table
   (header "Conforms", the conformance value) whatever the report graph holds,
   and never asks the graph for its result nodes; the detail table is written
   exactly when the outcome is not conformant. *)
C8_SummaryOnlyWhenConformant ==
    TableCase =>
        /\ outcome.is_conform =>
              /\ OutWrites = <<Write("out", Table(<<"Conforms">>, << << <<"T","r","u","e">> >> >>)),
                               Write("out", Text("\n\n"))>>
              /\ Count("query_results") = 0
        /\ Len(DetailTables) >= 1 => ~outcome.is_conform
        /\ (~outcome.is_conform /\ ~Crashed("KeyError")) =>
              /\ Len(DetailTables) = 1
              /\ OutWrites[1] = Write("out", Table(<<"Conforms">>, << << <<"F","a","l","s","e">> >> >>))

C8_Witness ==
    /\ TableCase
    /\ outcome.is_conform
    /\ Len(outcome.v_graph.links) = 2
    /\ Len(OutWrites) = 2

(* the value without the namespace in front of it, if it is there *)
PrefixStripped(v) ==
    IF startswith(v, SH) THEN SubSeq(v, Len(SH) + 1, Len(v)) ELSE v

Column(p) ==
    CASE p = "resultSeverity" -> 2 [] p = "focusNode" -> 3 [] p = "resultPath" -> 4
      [] p = "resultMessage" -> 5 [] p = "sourceConstraintComponent" -> 6
      [] p = "sourceShape" -> 7 [] p = "value" -> 8

(* C9: in the detail table the column of an optional facet (result path,
   message, value) is "-" when the result node has no such triple and the
   stringified, prefix-stripped, wrapped object when it has one; every column
   depends on its own facet only. *)
C9_OptionalFacets ==
    (TableCase /\ Len(DetailTables) = 1) =>
        LET rows == DetailTables[1].item.rows
            g    == outcome.v_graph
            objs == ResultObjects(g)
        IN \A k \in 1..Len(objs) : \A p \in Mandatory \cup Optional :
              rows[2 * k - 1][Column(p)] =
                  IF p \in g.preds[objs[k]]
                  THEN col_widther(PrefixStripped(FacetValue(objs[k], p)), ColWidth)
                  ELSE <<"-">>

(* the chunks of a wrapped string: the text between the newlines that
   col_widther put after every w characters *)
RECURSIVE WrappedChunks(_, _)
WrappedChunks(out, w) ==
    IF Len(out) <= w THEN (IF out = <<>> THEN <<>> ELSE <<out>>)
    ELSE <<SubSeq(out, 1, w)>> \o WrappedChunks(SubSeq(out, w + 2, Len(out)), w)

RECURSIVE Concat(_)
Concat(parts) == IF parts = <<>> THEN <<>> ELSE Head(parts) \o Concat(Tail(parts))

InsertedNewlines(out, w) ==
    \A k \in 1..Len(out) : (k % (w + 1) = 0) => out[k] = "\n"

(* C10: wrapping at 25 loses and adds nothing but the inserted newlines: every
   chunk has at most 25 characters, every chunk but the last exactly 25, and
   the chunks put together are the value with the namespace removed from its
   front only - a namespace further inside the value stays. *)
C10_WrapPreservesPrefixStripped ==
    pc = "cw_done" =>
        LET chunks == WrappedChunks(cw_out, ColWidth) IN
        /\ InsertedNewlines(cw_out, ColWidth)
        /\ \A k \in 1..Len(chunks) :
              /\ Len(chunks[k]) <= ColWidth
              /\ k < Len(chunks) => Len(chunks[k]) = ColWidth
        /\ Concat(chunks) = PrefixStripped(cw_in)

====
